---- MODULE Spec2Model ----
(***************************************************************************)
(* Model of app.py, the Streamlit "AI Indian Financial Analyst" page.      *)
(*                                                                         *)
(* One run of the script is one invocation.  A run is split at its three   *)
(* blocking provider calls (quote, news, language model); the provider's   *)
(* reply is the nondeterministic input of the step that makes the call.    *)
(* Text that the code parses or formats is a sequence of one-character     *)
(* strings; fixed literals that are only displayed are TLA+ strings.       *)
(***************************************************************************)
EXTENDS Integers, Sequences, FiniteSets, TLC

VARIABLES
    pc,             \* where the script run stands
    button,         \* whether this run was started by pressing Analyze
    symbol,         \* the symbol input, upper-cased
    query,          \* the query input
    stock_info,     \* result of get_stock_info, optional
    news_articles,  \* result of get_news_articles
    analysis,       \* result of generate_response, optional
    screen,         \* the elements written to the page by this run
    calls,          \* the provider requests issued by this run
    info,           \* the quote provider's reply, optional (absent: it raised)
    results,        \* the search provider's reply, optional
    choices         \* the language model's reply, optional

vars == <<pc, button, symbol, query, stock_info, news_articles, analysis,
          screen, calls, info, results, choices>>

(***************************************************************************)
(* Bounds of the model.                                                    *)
(***************************************************************************)
MaxChoices == 2      \* completion choices in one language-model reply
MaxHits == 6         \* results the search provider has for a search
MaxIrregular == 1    \* keys of one quote reply that are missing or null

(***************************************************************************)
(* Python values: a number, a string, or None.                             *)
(***************************************************************************)
Num(k) == [t |-> "num", n |-> k, s |-> <<>>]
Str(cs) == [t |-> "str", n |-> 0, s |-> cs]
None == [t |-> "none", n |-> 0, s |-> <<>>]
NA == Str(<<"N", "/", "A">>)

\* Optional object: <<>> is None, <<x>> is the object x.
NoObject == <<>>
Some(x) == <<x>>

Min(a, b) == IF a < b THEN a ELSE b

(***************************************************************************)
(* Text helpers.                                                           *)
(***************************************************************************)
DigitChar == <<"0", "1", "2", "3", "4", "5", "6", "7", "8", "9">>

RECURSIVE Digits(_)
Digits(n) == IF n < 10 THEN <<DigitChar[n + 1]>>
             ELSE Digits(n \div 10) \o <<DigitChar[(n % 10) + 1]>>

\* str.upper() on the characters the inputs use
ToUpper(c) == CASE c = "t" -> "T"
                [] c = "c" -> "C"
                [] c = "s" -> "S"
                [] c = "n" -> "N"
                [] c = "m" -> "M"
                [] c = "b" -> "B"
                [] c = "o" -> "O"
                [] OTHER -> c

Upper(cs) == [i \in 1..Len(cs) |-> ToUpper(cs[i])]

SplitNone(cs, sep) == cs

\* str.split(sep)[0]: the text before the first separator, all of it if none
RECURSIVE SplitFirst(_, _)
SplitFirst(cs, sep) == IF cs = <<>> \/ Head(cs) = sep THEN <<>>
                       ELSE <<Head(cs)>> \o SplitFirst(Tail(cs), sep)

\* sep.join(parts)
RECURSIVE Join(_, _)
Join(parts, sep) == IF parts = <<>> THEN <<>>
                    ELSE IF Len(parts) = 1 THEN parts[1]
                    ELSE parts[1] \o sep \o Join(Tail(parts), sep)

\* str(x) / repr(x) of a value inside a dict
Repr(v) == CASE v.t = "num" -> Digits(v.n)
             [] v.t = "str" -> <<"'">> \o v.s \o <<"'">>
             [] OTHER -> <<"N", "o", "n", "e">>

\* str(x) of a value interpolated into an f-string
ToStr(v) == CASE v.t = "num" -> Digits(v.n)
              [] v.t = "str" -> v.s
              [] OTHER -> <<"N", "o", "n", "e">>

(***************************************************************************)
(* Inputs: what the user can type and what the providers can answer.       *)
(***************************************************************************)
\* text typed into the symbol field (before .upper())
RawSymbols == { <<>>,
                <<"t", "c", "s", ".", "n", "s">>,
                <<"I", "N", "F", "Y">>,
                <<"m", ".", "m", ".", "b", "o">> }

\* text typed into the query field
Queries == { <<>>, <<"q">> }

\* keys of the Quote Snapshot, in the order the dict literal lists them
SnapshotKeys == <<"currentPrice", "peRatio", "marketCap", "analystRating",
                  "dividendYield", "52WeekHigh", "52WeekLow">>

\* the provider key each snapshot key is read from
ProviderKey(k) == CASE k = "peRatio" -> "trailingPE"
                    [] k = "analystRating" -> "recommendationMean"
                    [] k = "52WeekHigh" -> "fiftyTwoWeekHigh"
                    [] k = "52WeekLow" -> "fiftyTwoWeekLow"
                    [] OTHER -> k

ProviderKeys == { ProviderKey(SnapshotKeys[i]) : i \in 1..Len(SnapshotKeys) }

\* market capitalisations the quote provider may report (rupees)
MarketCaps == { 0, 19995000, 123456789 }

\* the number the quote provider reports under a key other than marketCap
QuoteNumber(k) == CASE k = "currentPrice" -> 2950
                    [] k = "trailingPE" -> 27
                    [] k = "recommendationMean" -> 2
                    [] k = "dividendYield" -> 1
                    [] k = "fiftyTwoWeekHigh" -> 3217
                    [] OTHER -> 2220

\* stock.info: a dict holding some of the keys, each with a number or None
ProviderInfo(present, nulls, cap) ==
    [k \in present |-> IF k \in nulls THEN None
                       ELSE IF k = "marketCap" THEN Num(cap)
                       ELSE Num(QuoteNumber(k))]

\* replies of the quote provider: the empty dict of an unknown symbol, and
\* the dicts with at most MaxIrregular keys missing or null
QuoteReplies ==
    { ProviderInfo(sh[1], sh[2], cap) :
        sh \in { x \in { <<present, nulls>> : present \in SUBSET ProviderKeys,
                                             nulls \in SUBSET ProviderKeys } :
                    /\ x[2] \subseteq x[1]
                    /\ \/ x[1] = {}
                       \/ Cardinality(ProviderKeys \ x[1]) + Cardinality(x[2]) <= MaxIrregular },
        cap \in MarketCaps }

\* one search result
Item(i) == [title |-> <<"T", DigitChar[i + 1]>>, body |-> <<"b", DigitChar[i + 1]>>]

\* relevance rankings the search provider may hold for a search text
Rankings == { [i \in 1..MaxHits |-> Item(i)],
              [i \in 1..MaxHits |-> Item(MaxHits + 1 - i)] }

\* texts a completion choice may carry
Texts == { <<"B", "u", "y">>, <<"H", "o", "l", "d">> }

ChoiceLists == UNION { [1..n -> Texts] : n \in 1..MaxChoices }

(***************************************************************************)
(* The three fetchers.                                                     *)
(***************************************************************************)
\* dict.get(key, default)
DictGet(d, k, default) == IF k \in DOMAIN d THEN d[k] ELSE default

\* Optional snapshot: None when the provider call raised.
get_stock_info(raised, inf) ==
    IF raised THEN NoObject
    ELSE Some([k \in { SnapshotKeys[i] : i \in 1..Len(SnapshotKeys) } |->
                  DictGet(inf, ProviderKey(k), NA)])

\* result cap passed to the search provider
MaxResults == 5

StockNews == <<" ", "s", "t", "o", "c", "k", " ", "n", "e", "w", "s">>

Call(api, text, cap, msgs) ==
    [api |-> api, text |-> text, max_results |-> cap, messages |-> msgs]

\* the request get_news_articles sends
NewsRequest(company_name) == Call("news", company_name \o StockNews, MaxResults, <<>>)

\* replies of ddgs.text to a request: a ranking cut at the requested cap
SearchReplies(request) ==
    { SubSeq(r, 1, k) : r \in Rankings, k \in 0..Min(request.max_results, MaxHits) }

\* the list comprehension over the provider's results
get_news_articles(reply) == [i \in 1..Len(reply) |-> reply[i]]

\* str(stock_info)
StrSnapshot(si) ==
    IF si = NoObject THEN <<<<"None", <<>>>>>>
    ELSE [i \in 1..Len(SnapshotKeys) |-> <<SnapshotKeys[i], Repr(si[1][SnapshotKeys[i]])>>]

\* f"- {article['title']}: {article['body']}"
NewsLine(article) == <<"-", " ">> \o article.title \o <<":", " ">> \o article.body

\* "\n".join([... for article in news_articles])
NewsBlock(articles) == Join([i \in 1..Len(articles) |-> NewsLine(articles[i])], <<"\n">>)

\* the messages of the chat completion request
Messages(q, si, articles) ==
    << [role |-> "system",
        template |-> "You are an expert Indian financial analyst.",
        stock_info |-> StrSnapshot(si),
        news_articles |-> NewsBlock(articles),
        query |-> <<>>],
       [role |-> "user",
        template |-> "Query: {query}\n\nProvide detailed analysis:",
        stock_info |-> <<>>,
        news_articles |-> <<>>,
        query |-> q] >>

\* response.choices[0].message.content
FirstChoice(chs) == chs[1]

(***************************************************************************)
(* The page.                                                               *)
(***************************************************************************)
El(w, label, text, value) == [w |-> w, label |-> label, text |-> text, value |-> value]

Header == << El("title", "AI Indian Financial Analyst", <<>>, <<>>),
             El("write", "Analyzing NSE/BSE stocks with real-time data and news", <<>>, <<>>) >>

Footer == << El("markdown", "---", <<>>, <<>>),
             El("caption", "Note: This is an analytical tool and should not be considered as financial advice. Always do your own research.", <<>>, <<>>) >>

Warning == El("warning", "Please enter both stock symbol and query", <<>>, <<>>)

QuoteError == El("error", "Invalid stock symbol or data unavailable", <<>>, <<>>)

NonEmptyLax(cs) == TRUE

\* Python truth value of a str
NonEmpty(cs) == cs # <<>>

TruthyLax(si) == TRUE

\* Python truth value of stock_info (None or a dict)
Truthy(si) == si # NoObject /\ DOMAIN si[1] # {}

\* "Rs" stands for the rupee sign
Rupee == <<"Rs">>

TwoDigits(n) == <<DigitChar[(n \div 10) + 1], DigitChar[(n % 10) + 1]>>

\* f"{V/1e7:.2f}": V/10^7 rounded to the nearest hundredth
\* (an exact half, where the binary float decides, is not among MarketCaps)
Fixed2(V) ==
    LET unit == 100000
        q == V \div unit
        r == V % unit
        hundredths == IF 2 * r > unit \/ (2 * r = unit /\ q % 2 = 1) THEN q + 1 ELSE q
    IN Digits(hundredths \div 100) \o <<".">> \o TwoDigits(hundredths % 100)

\* the Market Cap metric: raises (FALSE) when the value cannot be divided
MarketCapOk(v) == v = NA \/ v.t = "num"

MarketCapText(v) == IF v # NA THEN Rupee \o Fixed2(v.n) \o <<" ", "C", "r">>
                    ELSE <<"N", "/", "A">>

ShownAll(articles) == articles

\* news_articles[:3]
Shown(articles) == SubSeq(articles, 1, Min(3, Len(articles)))

\* the two elements written for each shown article
NewsEntries(articles) ==
    [j \in 1..(2 * Len(articles)) |->
        IF j % 2 = 1 THEN El("write", "news title", articles[(j + 1) \div 2].title, <<>>)
        ELSE El("caption", "", articles[j \div 2].body, <<>>)]

Terminal == {"idle", "done", "stopped", "crashed"}

Init ==
    /\ pc = "idle"
    /\ button = FALSE
    /\ symbol = <<>>
    /\ query = <<>>
    /\ stock_info = NoObject
    /\ news_articles = <<>>
    /\ analysis = NoObject
    /\ screen = <<>>
    /\ calls = <<>>
    /\ info = NoObject
    /\ results = NoObject
    /\ choices = NoObject

\* A script run up to the first provider call: the page header, the two
\* inputs and the Analyze button.
Rerun(rawSymbol, q, pressed) ==
    /\ pc \in Terminal
    /\ button' = pressed
    /\ symbol' = Upper(rawSymbol)
    /\ query' = q
    /\ stock_info' = NoObject
    /\ news_articles' = <<>>
    /\ analysis' = NoObject
    /\ calls' = <<>>
    /\ info' = NoObject
    /\ results' = NoObject
    /\ choices' = NoObject
    /\ IF pressed
       THEN IF NonEmpty(symbol') /\ NonEmpty(q)
            THEN /\ screen' = Header
                 /\ pc' = "quote"
            ELSE /\ screen' = Header \o <<Warning>> \o Footer
                 /\ pc' = "done"
       ELSE /\ screen' = Header \o Footer
            /\ pc' = "done"

\* stock_info = get_stock_info(symbol) and the check of its result
QuoteFetch(raised, inf) ==
    /\ pc = "quote"
    /\ calls' = Append(calls, Call("quote", symbol, 0, <<>>))
    /\ info' = IF raised THEN NoObject ELSE Some(inf)
    /\ stock_info' = get_stock_info(raised, inf)
    /\ IF ~Truthy(stock_info')
       THEN /\ screen' = Append(screen, QuoteError)
            /\ pc' = "stopped"
       ELSE /\ screen' = screen
            /\ pc' = "news"
    /\ UNCHANGED <<button, symbol, query, news_articles, analysis, results, choices>>

NewsFetchDegrading(raised) ==
    /\ pc = "news"
    /\ LET request == NewsRequest(SplitFirst(symbol, "."))
       IN /\ calls' = Append(calls, request)
          /\ pc' = "llm"
          /\ IF raised
             THEN /\ results' = NoObject
                  /\ news_articles' = <<>>
             ELSE \E reply \in SearchReplies(request) :
                  /\ results' = Some(reply)
                  /\ news_articles' = get_news_articles(reply)
    /\ UNCHANGED <<button, symbol, query, stock_info, analysis, screen, info, choices>>

\* company_name = symbol.split('.')[0]; news_articles = get_news_articles(..)
NewsFetch(raised) ==
    /\ pc = "news"
    /\ LET company_name == SplitFirst(symbol, ".")
           request == NewsRequest(company_name)
       IN /\ calls' = Append(calls, request)
          /\ IF raised
             THEN /\ results' = NoObject
                  /\ news_articles' = news_articles
                  /\ pc' = "crashed"
             ELSE \E reply \in SearchReplies(request) :
                  /\ results' = Some(reply)
                  /\ news_articles' = get_news_articles(reply)
                  /\ pc' = "llm"
    /\ UNCHANGED <<button, symbol, query, stock_info, analysis, screen, info, choices>>

GenerateRetrying(raised, chs) ==
    /\ pc = "llm"
    /\ LET request == Call("llm", <<>>, 0, Messages(query, stock_info, news_articles))
       IN calls' = IF raised THEN calls \o <<request, request>> ELSE Append(calls, request)
    /\ choices' = Some(chs)
    /\ analysis' = Some(FirstChoice(chs))
    /\ pc' = "render"
    /\ UNCHANGED <<button, symbol, query, stock_info, news_articles, screen, info, results>>

GenerateFallback(raised, chs) ==
    /\ pc = "llm"
    /\ calls' = Append(calls, Call("llm", <<>>, 0, Messages(query, stock_info, news_articles)))
    /\ choices' = IF raised THEN NoObject ELSE Some(chs)
    /\ analysis' = IF raised THEN Some(<<>>) ELSE Some(FirstChoice(chs))
    /\ pc' = "render"
    /\ UNCHANGED <<button, symbol, query, stock_info, news_articles, screen, info, results>>

\* analysis = generate_response(query, stock_info, news_articles)
Generate(raised, chs) ==
    /\ pc = "llm"
    /\ calls' = Append(calls, Call("llm", <<>>, 0, Messages(query, stock_info, news_articles)))
    /\ IF raised
       THEN /\ choices' = NoObject
            /\ analysis' = analysis
            /\ pc' = "crashed"
       ELSE /\ choices' = Some(chs)
            /\ analysis' = Some(FirstChoice(chs))
            /\ pc' = "render"
    /\ UNCHANGED <<button, symbol, query, stock_info, news_articles, screen, info, results>>

\* "Display results" and the footer that ends the script
Render ==
    /\ pc = "render"
    /\ LET si == stock_info[1]
           upto == << El("subheader", "Analysis for {symbol}", symbol, <<>>),
                      El("write", "", analysis[1], <<>>),
                      El("subheader", "Key Metrics", <<>>, <<>>),
                      El("metric", "P/E Ratio", <<>>, Some(si["peRatio"])) >>
           rest == << El("metric", "Market Cap", MarketCapText(si["marketCap"]), <<>>),
                      El("metric", "Current Price", Rupee \o ToStr(si["currentPrice"]), <<>>),
                      El("subheader", "Recent News Highlights", <<>>, <<>>) >>
       IN IF MarketCapOk(si["marketCap"])
          THEN /\ screen' = screen \o upto \o rest \o NewsEntries(Shown(news_articles)) \o Footer
               /\ pc' = "done"
          ELSE /\ screen' = screen \o upto
               /\ pc' = "crashed"
    /\ UNCHANGED <<button, symbol, query, stock_info, news_articles, analysis, calls, info, results, choices>>

Next ==
    \/ \E rawSymbol \in RawSymbols, q \in Queries, pressed \in BOOLEAN :
           Rerun(rawSymbol, q, pressed)
    \/ \E raised \in BOOLEAN, inf \in QuoteReplies : QuoteFetch(raised, inf)
    \/ \E raised \in BOOLEAN : NewsFetch(raised)
    \/ \E raised \in BOOLEAN, chs \in ChoiceLists : Generate(raised, chs)
    \/ Render

Spec == Init /\ [][Next]_vars

(***************************************************************************)
(* Vocabulary of the properties.                                           *)
(***************************************************************************)
CallsTo(api) == Cardinality({ i \in DOMAIN calls : calls[i].api = api })

OnScreen(e) == \E i \in DOMAIN screen : screen[i] = e

\* an element of the results display: analysis, metrics, news entries
IsResult(e) ==
    \/ e.w \in {"subheader", "metric"}
    \/ e.w = "write" /\ e.label \in {"", "news title"}
    \/ e.w = "caption" /\ e.label = ""

NoResultShown == \A i \in DOMAIN screen : ~IsResult(screen[i])

EndsWithFooter ==
    /\ Len(screen) >= Len(Footer)
    /\ SubSeq(screen, Len(screen) - Len(Footer) + 1, Len(screen)) = Footer

QuoteIssued == Len(calls) >= 1 /\ calls[1].api = "quote"
NewsIssued == Len(calls) >= 2 /\ calls[2].api = "news"
LlmIssued == Len(calls) >= 3 /\ calls[3].api = "llm"

\* C1: whenever the quote fetch of a run raised, the run shows the error
\* "Invalid stock symbol or data unavailable" and issues no news request and
\* no language-model request.
QuoteFailureStopsPipeline ==
    (QuoteIssued /\ info = NoObject) =>
        /\ stock_info = NoObject
        /\ OnScreen(QuoteError)
        /\ CallsTo("news") = 0
        /\ CallsTo("llm") = 0
        /\ pc = "stopped"

QuoteFailureReached ==
    /\ pc = "stopped"
    /\ button /\ symbol # <<>> /\ query # <<>>
    /\ QuoteIssued /\ info = NoObject
    /\ screen[Len(screen)] = QuoteError

\* C2: a run started by Analyze with an empty symbol or an empty query never
\* leaves the idle page: it shows the warning and issues no provider request.
EmptyInputMakesNoCalls ==
    (button /\ (symbol = <<>> \/ query = <<>>)) =>
        /\ pc = "done"
        /\ calls = <<>>
        /\ OnScreen(Warning)
        /\ NoResultShown

EmptyInputReached ==
    /\ button
    /\ symbol = <<>>
    /\ query # <<>>
    /\ pc = "done"
    /\ OnScreen(Warning)

\* C3: every finished run ends with the disclaimer footer: after a rendered
\* analysis, after the empty-input warning, after the quote-failure error and
\* when Analyze was not pressed.
FooterOnEveryOutcome ==
    (pc \in {"done", "stopped"}) => EndsWithFooter

\* C4: whenever the quote fetch did not raise, the snapshot has exactly the
\* seven fields, a field the provider has no value for (key absent or null)
\* is 'N/A', and no field is null.
SnapshotFields == { SnapshotKeys[i] : i \in 1..Len(SnapshotKeys) }

ProviderHasNoValue(k) ==
    \/ ProviderKey(k) \notin DOMAIN info[1]
    \/ info[1][ProviderKey(k)] = None

SnapshotNeverNull ==
    (QuoteIssued /\ info # NoObject) =>
        /\ stock_info # NoObject
        /\ DOMAIN stock_info[1] = SnapshotFields
        /\ Cardinality(SnapshotFields) = 7
        /\ \A k \in SnapshotFields :
               /\ ProviderHasNoValue(k) => stock_info[1][k] = NA
               /\ stock_info[1][k] # None

\* C5: once the news step of a run with a snapshot is over, exactly one news
\* request was issued, with cap five and with the company name being the
\* part of the upper-cased symbol before its first '.', and the news
\* sequence is the provider's, in its order, of length at most five.
IsCompanyOf(c, sym) ==
    /\ Len(c) <= Len(sym)
    /\ \A i \in 1..Len(c) : c[i] = sym[i] /\ c[i] # "." /\ ToUpper(c[i]) = c[i]
    /\ Len(c) = Len(sym) \/ sym[Len(c) + 1] = "."

OneCappedNewsRequest ==
    (stock_info # NoObject /\ pc # "news") =>
        /\ CallsTo("news") = 1
        /\ NewsIssued
        /\ calls[2].max_results = 5
        /\ Len(calls[2].text) >= Len(StockNews)
        /\ LET n == Len(calls[2].text) - Len(StockNews)
           IN /\ SubSeq(calls[2].text, n + 1, Len(calls[2].text)) = StockNews
              /\ IsCompanyOf(SubSeq(calls[2].text, 1, n), symbol)
        /\ results # NoObject =>
               /\ Len(news_articles) <= 5
               /\ Len(news_articles) = Len(results[1])
               /\ \A i \in 1..Len(news_articles) : news_articles[i] = results[1][i]

NewsRequestReached ==
    /\ pc = "done"
    /\ NewsIssued
    /\ \E i \in 1..Len(symbol) : symbol[i] = "."
    /\ results # NoObject
    /\ Len(results[1]) = 5

\* C6: once the language model has answered, the metrics are rendered
\* without failure; the Market Cap metric is 'N/A' when the provider had no
\* market-cap value, and otherwise the rupee sign, V/10^7 to two decimals
\* (the nearest hundredth) and ' Cr'.
DigitValue(c) == CHOOSE d \in 0..9 : DigitChar[d + 1] = c

RECURSIVE NumberOf(_)
NumberOf(cs) == IF cs = <<>> THEN 0
                ELSE 10 * NumberOf(SubSeq(cs, 1, Len(cs) - 1)) + DigitValue(cs[Len(cs)])

IsCroreText(txt, V) ==
    LET n == Len(txt)
    IN /\ n >= 8
       /\ txt[1] = "Rs"
       /\ SubSeq(txt, n - 2, n) = <<" ", "C", "r">>
       /\ txt[n - 5] = "."
       /\ LET hundredths == 100 * NumberOf(SubSeq(txt, 2, n - 6))
                            + NumberOf(SubSeq(txt, n - 4, n - 3))
          IN /\ 2 * (hundredths * 100000 - V) <= 100000
             /\ 2 * (V - hundredths * 100000) <= 100000

MarketCapMetricAlwaysRenders ==
    (pc \in {"done", "crashed"} /\ choices # NoObject) =>
        /\ pc = "done"
        /\ \E i \in DOMAIN screen :
               /\ screen[i].w = "metric"
               /\ screen[i].label = "Market Cap"
               /\ IF ProviderHasNoValue("marketCap")
                  THEN screen[i].text = <<"N", "/", "A">>
                  ELSE IsCroreText(screen[i].text, info[1]["marketCap"].n)

\* C7: the requests of a run are issued in the order quote, news, language
\* model, each at most once; the news request only with a snapshot, the
\* language-model request only after the search provider answered, and
\* no result is on the page before the language model answered.
ApiOrder == <<"quote", "news", "llm">>

StrictlyLinear ==
    /\ Len(calls) <= 3
    /\ \A i \in DOMAIN calls : calls[i].api = ApiOrder[i]
    /\ CallsTo("news") > 0 => stock_info # NoObject /\ info # NoObject
    /\ CallsTo("llm") > 0 => results # NoObject
    /\ ~NoResultShown => choices # NoObject /\ CallsTo("llm") = 1
    /\ pc = "news" => Len(calls) = 1
    /\ pc = "llm" => Len(calls) = 2
    /\ pc = "render" => Len(calls) = 3 /\ NoResultShown

LinearRunReached ==
    /\ pc = "done"
    /\ Len(calls) = 3
    /\ ~NoResultShown
    /\ EndsWithFooter

\* C8: whenever the news request of a run failed, the run is over without
\* a language-model request and without any result on the page.
NewsFailureAborts ==
    (NewsIssued /\ results = NoObject) =>
        /\ pc = "crashed"
        /\ CallsTo("llm") = 0
        /\ choices = NoObject
        /\ analysis = NoObject
        /\ NoResultShown

NewsFailureReached ==
    /\ pc = "crashed"
    /\ NewsIssued
    /\ results = NoObject
    /\ stock_info # NoObject

\* C9: whenever the language-model request of a run failed, the run is over
\* with that single request and with no result on the page; whenever it
\* succeeded, an analysis text on the page is the first choice's text.
LlmFailureAborts ==
    /\ (LlmIssued /\ choices = NoObject) =>
           /\ pc = "crashed"
           /\ CallsTo("llm") = 1
           /\ analysis = NoObject
           /\ NoResultShown
    /\ (pc \in {"done", "crashed"} /\ choices # NoObject) =>
           /\ Cardinality({ i \in DOMAIN screen :
                              screen[i].w = "write" /\ screen[i].label = "" }) = 1
           /\ \A i \in DOMAIN screen :
                  (screen[i].w = "write" /\ screen[i].label = "") =>
                      screen[i].text = choices[1][1]

LlmFailureReached ==
    /\ pc = "crashed"
    /\ LlmIssued
    /\ choices = NoObject
    /\ results # NoObject

\* C10: the system prompt carries one '- <title>: <snippet>' line per fetched
\* news item, all n of them in provider order (nothing for n = 0), while the
\* page shows exactly the first min(3, n) items in that order.
RECURSIVE SplitLines(_)
SplitLines(cs) ==
    LET first == SplitFirst(cs, "\n")
    IN IF Len(first) = Len(cs) THEN <<first>>
       ELSE <<first>> \o SplitLines(SubSeq(cs, Len(first) + 2, Len(cs)))

NewsOnScreen ==
    LET idx == { i \in DOMAIN screen : screen[i].label = "Recent News Highlights" }
    IN IF idx = {} THEN <<>>
       ELSE LET start == CHOOSE i \in idx : TRUE
            IN SubSeq(screen, start + 1, Len(screen) - Len(Footer))

PromptAllDisplayThree ==
    /\ LlmIssued =>
           LET block == calls[3].messages[1].news_articles
               n == Len(results[1])
           IN /\ n = 0 => block = <<>>
              /\ n > 0 =>
                     /\ Len(SplitLines(block)) = n
                     /\ \A i \in 1..n :
                            SplitLines(block)[i] =
                                <<"-", " ">> \o results[1][i].title
                                    \o <<":", " ">> \o results[1][i].body
    /\ pc = "done" /\ LlmIssued =>
           LET n == Len(results[1])
               m == IF n < 3 THEN n ELSE 3
           IN /\ Len(NewsOnScreen) = 2 * m
              /\ \A i \in 1..m :
                     /\ NewsOnScreen[2 * i - 1].w = "write"
                     /\ NewsOnScreen[2 * i - 1].text = results[1][i].title
                     /\ NewsOnScreen[2 * i].w = "caption"
                     /\ NewsOnScreen[2 * i].text = results[1][i].body

FiveNewsReached ==
    /\ pc = "done"
    /\ LlmIssued
    /\ Len(results[1]) = 5
    /\ Len(NewsOnScreen) = 6

====
